---------------------------- MODULE Spec2Model ----------------------------
(***************************************************************************)
(* Model of lzhbrowser.Browser (src/lzhbrowser/__init__.py): a playwright  *)
(* session with two persistent contexts (direct, proxy), a whitelist that  *)
(* routes a fetch to one of them, a semaphore bounding the fetch calls in  *)
(* flight and a retry loop per fetch call.                                 *)
(*                                                                         *)
(* Text (urls, whitelist patterns) is a sequence of one-character strings. *)
(* The alphabet is printable ASCII; fnmatch is the POSIX one (normcase is  *)
(* the identity).  Urls whose netloc holds '[' or ']' are outside the      *)
(* model (urlsplit validates them as IPv6 literals).                       *)
(***************************************************************************)
EXTENDS Integers, Sequences, FiniteSets, TLC

(* ------------------------------ text ---------------------------------- *)

\* Printable ASCII in code order: ord(c) = index + 31.  The three characters
\* that cannot be written in a string here stand under their names.
Ascii ==
  <<" ", "!", "dquote", "#", "$", "%", "&", "'", "(", ")", "*", "+", ",", "-", ".", "/", "0", "1", "2", "3", "4", "5", "6", "7", "8", "9", ":", ";", "<", "=", ">", "?", "@", "A", "B", "C", "D", "E", "F", "G", "H", "I", "J", "K", "L", "M", "N", "O", "P", "Q", "R", "S", "T", "U", "V", "W", "X", "Y", "Z", "[", "backslash", "]", "^", "_", "backtick", "a", "b", "c", "d", "e", "f", "g", "h", "i", "j", "k", "l", "m", "n", "o", "p", "q", "r", "s", "t", "u", "v", "w", "x", "y", "z", "{", "|", "}", "~">>

ord(c) == 31 + CHOOSE i \in 1..Len(Ascii) : Ascii[i] = c

IsUpper(c) == ord(c) >= 65 /\ ord(c) <= 90
IsLower(c) == ord(c) >= 97 /\ ord(c) <= 122
IsDigit(c) == ord(c) >= 48 /\ ord(c) <= 57
IsAlpha(c) == IsUpper(c) \/ IsLower(c)

\* str.lower() on one character.
lower(c) == IF IsUpper(c) THEN Ascii[ord(c) + 32 - 31] ELSE c

lowerStr(s) == [i \in 1..Len(s) |-> lower(s[i])]

\* s[a:b] of Python with 0-based a, b already clamped to 0..len(s).
Slice(s, a, b) == IF b <= a THEN <<>> ELSE SubSeq(s, a + 1, b)

\* s.find(c, start): 0-based index of the first c at or after start, -1 if none.
Find(s, c, start) ==
  LET hits == {i \in start..(Len(s) - 1) : s[i + 1] = c}
  IN  IF hits = {} THEN -1 ELSE CHOOSE i \in hits : \A j \in hits : i <= j

\* s.rfind(c): 0-based index of the last c, -1 if none.
RFind(s, c) ==
  LET hits == {i \in 0..(Len(s) - 1) : s[i + 1] = c}
  IN  IF hits = {} THEN -1 ELSE CHOOSE i \in hits : \A j \in hits : i >= j

\* s.lstrip(" "): the C0 controls are outside the alphabet.
RECURSIVE lstrip(_)
lstrip(s) == IF Len(s) > 0 /\ s[1] = " " THEN lstrip(Tail(s)) ELSE s

\* urllib.parse.uses_params
uses_params ==
  { <<>>,
    <<"f", "t", "p">>,
    <<"h", "d", "l">>,
    <<"p", "r", "o", "s", "p", "e", "r", "o">>,
    <<"h", "t", "t", "p">>,
    <<"i", "m", "a", "p">>,
    <<"h", "t", "t", "p", "s">>,
    <<"s", "h", "t", "t", "p">>,
    <<"r", "t", "s", "p">>,
    <<"r", "t", "s", "p", "s">>,
    <<"r", "t", "s", "p", "u">>,
    <<"s", "i", "p">>,
    <<"s", "i", "p", "s">>,
    <<"m", "m", "s">>,
    <<"s", "f", "t", "p">>,
    <<"t", "e", "l">> }

scheme_chars(c) == IsAlpha(c) \/ IsDigit(c) \/ c \in {"+", "-", "."}

\* min over the delimiters '/?#' found at or after start, len(url) if none.
splitnetloc_delim(url, start) ==
  LET found == {Find(url, c, start) : c \in {"/", "?", "#"}} \ {-1}
  IN  IF found = {} THEN Len(url)
      ELSE CHOOSE d \in found : \A e \in found : d <= e

\* urlsplit, the scheme step: url[:i] is a scheme when i > 0, url[0] is a
\* letter and every character before the colon is a scheme character.
has_scheme(url, i) ==
  /\ i > 0
  /\ IsAlpha(url[1])
  /\ \A k \in 1..i : scheme_chars(url[k])

split_scheme(url) ==
  LET i == Find(url, ":", 0)
  IN  IF has_scheme(url, i)
      THEN [scheme |-> lowerStr(Slice(url, 0, i)),
            rest |-> Slice(url, i + 1, Len(url))]
      ELSE [scheme |-> <<>>, rest |-> url]

\* urlsplit, the netloc step: after a leading '//' the netloc runs to the
\* first of '/?#'.
split_netloc(url) ==
  IF Len(url) >= 2 /\ url[1] = "/" /\ url[2] = "/"
  THEN [netloc |-> Slice(url, 2, splitnetloc_delim(url, 2)),
        rest |-> Slice(url, splitnetloc_delim(url, 2), Len(url))]
  ELSE [netloc |-> <<>>, rest |-> url]

\* url.split(c, 1): the text before the first c and the text after it.
split_once(url, c) ==
  IF Find(url, c, 0) >= 0
  THEN [head |-> Slice(url, 0, Find(url, c, 0)),
        tail |-> Slice(url, Find(url, c, 0) + 1, Len(url))]
  ELSE [head |-> url, tail |-> <<>>]

urlsplit_query(scheme, netloc, q, fragment) ==
  [scheme |-> scheme, netloc |-> netloc, path |-> q.head,
   query |-> q.tail, fragment |-> fragment]

urlsplit_fragment(scheme, netloc, f) ==
  urlsplit_query(scheme, netloc, split_once(f.head, "?"), f.tail)

urlsplit_netloc(scheme, n) ==
  urlsplit_fragment(scheme, n.netloc, split_once(n.rest, "#"))

urlsplit_scheme(s) == urlsplit_netloc(s.scheme, split_netloc(s.rest))

\* urllib.parse.urlsplit: [scheme, netloc, path, query, fragment].
urlsplit(url) == urlsplit_scheme(split_scheme(lstrip(url)))

\* urllib.parse._splitparams: the path without its last segment's ;params.
splitparams_from(url, slash) ==
  IF slash >= 0 THEN Find(url, ";", slash) ELSE Find(url, ";", 0)

splitparams_path(url) ==
  IF splitparams_from(url, RFind(url, "/")) < 0 THEN url
  ELSE Slice(url, 0, splitparams_from(url, RFind(url, "/")))

urlparse_of(r) ==
  [netloc |-> r.netloc,
   path |-> IF r.scheme \in uses_params /\ Find(r.path, ";", 0) >= 0
            THEN splitparams_path(r.path) ELSE r.path]

\* urllib.parse.urlparse, the two components _is_whitelisted reads.
urlparse(url) == urlparse_of(urlsplit(url))

\* ParseResult._hostinfo: the netloc after its last '@', cut at the first ':'.
hostinfo_of(netloc) ==
  IF RFind(netloc, "@") >= 0
  THEN Slice(netloc, RFind(netloc, "@") + 1, Len(netloc)) ELSE netloc

hostname_of(hostinfo) ==
  IF Find(hostinfo, ":", 0) >= 0
  THEN Slice(hostinfo, 0, Find(hostinfo, ":", 0)) ELSE hostinfo

\* ParseResult.hostname, the lowercasing: hostname.partition('%') and only the
\* part before the first '%' is lowercased, the zone is kept as written.
hostname_lower(hostname) ==
  IF Find(hostname, "%", 0) >= 0
  THEN lowerStr(Slice(hostname, 0, Find(hostname, "%", 0)))
         \o Slice(hostname, Find(hostname, "%", 0), Len(hostname))
  ELSE lowerStr(hostname)

\* ParseResult.hostname: the netloc without userinfo and port, lowercased up
\* to its zone (the component _is_whitelisted does NOT read; it reads netloc).
url_hostname(url) ==
  hostname_lower(hostname_of(hostinfo_of(urlparse(url).netloc)))

(* ----------------------------- fnmatch -------------------------------- *)

\* fnmatch.translate, the '[' case: 0-based index j of the ']' closing the
\* class opened at pat[i - 1] = '[' (i is the index after it), Len(pat) if none.
RECURSIVE bracket_scan(_, _)
bracket_scan(pat, j) ==
  IF j < Len(pat) /\ pat[j + 1] # "]" THEN bracket_scan(pat, j + 1) ELSE j

bracket_end(pat, i) ==
  LET j1 == IF i < Len(pat) /\ pat[i + 1] = "!" THEN i + 1 ELSE i
      j2 == IF j1 < Len(pat) /\ pat[j1 + 1] = "]" THEN j1 + 1 ELSE j1
  IN  bracket_scan(pat, j2)

\* fnmatch.translate, the loop k = pat.find('-', k, j); k = k + 3: the 0-based
\* positions in stuff of the hyphens that stand for a range.
RECURSIVE range_hyphens(_, _)
range_hyphens(stuff, k) ==
  IF Find(stuff, "-", k) < 0 THEN <<>>
  ELSE <<Find(stuff, "-", k)>> \o range_hyphens(stuff, Find(stuff, "-", k) + 3)

\* The chunks of stuff between its range hyphens, the text after the last
\* hyphen included (it may be empty).
class_chunks(stuff, hyphens) ==
  [t \in 1..(Len(hyphens) + 1) |->
     Slice(stuff, IF t = 1 THEN 0 ELSE hyphens[t - 1] + 1,
                  IF t > Len(hyphens) THEN Len(stuff) ELSE hyphens[t])]

\* "if chunk: chunks.append(chunk) else: chunks[-1] += '-'": a hyphen that
\* ends the class is itself.
close_chunks(chunks) ==
  IF Len(chunks) > 1 /\ Len(chunks[Len(chunks)]) = 0
  THEN SubSeq(chunks, 1, Len(chunks) - 2)
         \o <<chunks[Len(chunks) - 1] \o <<"-">>>>
  ELSE chunks

\* "Remove empty ranges": for k from the last chunk down, a range x-y with
\* x > y loses both ends and its two chunks become one.
RECURSIVE remove_empty_ranges(_, _)
remove_empty_ranges(chunks, k) ==
  IF k < 2 THEN chunks
  ELSE IF ord(chunks[k - 1][Len(chunks[k - 1])]) > ord(chunks[k][1])
       THEN remove_empty_ranges(
              SubSeq(chunks, 1, k - 2)
                \o <<SubSeq(chunks[k - 1], 1, Len(chunks[k - 1]) - 1)
                       \o Tail(chunks[k])>>
                \o SubSeq(chunks, k + 1, Len(chunks)),
              k - 1)
       ELSE remove_empty_ranges(chunks, k - 1)

live_chunks(chunks) == remove_empty_ranges(chunks, Len(chunks))

\* Whether c is in the set of the regular expression [stuff], stuff being the
\* chunks joined by '-': every character of a chunk is itself, two chunks
\* that follow one another give the range from the last character of the
\* one to the first of the other.  In a negated class the leading '!' is the
\* '^' of the expression, and a hyphen right after it is itself.
in_class(c, chunks, negated) ==
  \/ \E t \in 1..Len(chunks) : \E p \in 1..Len(chunks[t]) :
       /\ ~(negated /\ t = 1 /\ p = 1)
       /\ chunks[t][p] = c
  \/ \E t \in 1..(Len(chunks) - 1) :
       IF negated /\ t = 1 /\ Len(chunks[1]) = 1
       THEN c = "-"
       ELSE /\ ord(chunks[t][Len(chunks[t])]) <= ord(c)
            /\ ord(c) <= ord(chunks[t + 1][1])

\* The end of the '[' case: no stuff left never matches, '!' alone matches any
\* character, stuff beginning with '!' is the negated class of the rest.
chunks_match(c, chunks) ==
  IF Len(chunks) = 1 /\ Len(chunks[1]) = 0 THEN FALSE
  ELSE IF Len(chunks) = 1 /\ chunks[1] = <<"!">> THEN TRUE
  ELSE IF chunks[1][1] = "!" THEN ~in_class(c, chunks, TRUE)
  ELSE in_class(c, chunks, FALSE)

\* re.match of one class [stuff] on the character c.  (With no '-' in stuff
\* translate skips the chunking; stuff is then the one chunk.)
class_match(c, stuff) ==
  chunks_match(c, live_chunks(close_chunks(class_chunks(stuff,
    range_hyphens(stuff, IF stuff[1] = "!" THEN 2 ELSE 1)))))

\* fnmatch.fnmatchcase: name[i..] matches pat[j..] (1-based), as the regular
\* expression of fnmatch.translate does: '*' any run, '?' any one character,
\* '[stuff]' one character of the class, '[' without ']' and every other
\* character itself.
RECURSIVE glob(_, _, _, _)
glob(name, i, pat, j) ==
  IF j > Len(pat) THEN i > Len(name)
  ELSE LET c == pat[j] IN
    IF c = "*" THEN \/ glob(name, i, pat, j + 1)
                    \/ (i <= Len(name) /\ glob(name, i + 1, pat, j))
    ELSE IF c = "?" THEN i <= Len(name) /\ glob(name, i + 1, pat, j + 1)
    ELSE IF c = "[" /\ bracket_end(pat, j) < Len(pat)
      THEN LET e == bracket_end(pat, j) IN
           /\ i <= Len(name)
           /\ class_match(name[i], Slice(pat, j, e))
           /\ glob(name, i + 1, pat, e + 2)
    ELSE i <= Len(name) /\ name[i] = c /\ glob(name, i + 1, pat, j + 1)

\* fnmatch.fnmatch(name, pat) on POSIX.
fnmatch(name, pat) == glob(name, 1, pat, 1)

\* Browser._is_whitelisted, lines 169-173: hostname is the netloc.
matches_any(hostname, path, white_list) ==
  \E pattern \in white_list :
    fnmatch(hostname, pattern) \/ fnmatch(hostname \o path, pattern)

is_whitelisted_parsed(parsed, white_list) ==
  matches_any(parsed.netloc, parsed.path, white_list)

\* Browser._is_whitelisted against a given pattern set.
is_whitelisted_in(url, white_list) ==
  is_whitelisted_parsed(urlparse(url), white_list)

(* ------------------------------ bounds -------------------------------- *)

\* Number of fetch invocations made on the session of Spec.
NCalls == 1

\* Number of fetch invocations made on the session of SpecFetch.
NFetchCalls == 1

\* Number of fetch invocations made on the session of SpecGate.
NGateCalls == 4

\* Number of fetch invocations made on the session of SpecMatch.
NMatchCalls == 1

\* Number of fetch invocations made on the session of SpecShared.
NSharedCalls == 1

\* Number of fetch invocations made on the session of SpecLive.
NLiveCalls == 2

\* Number of close() invocations made on the session.
MaxCloseCalls == 2

\* Browser.__init__ max_retry_default.
max_retry_default == 2

Url_video_dmm ==
  <<"h", "t", "t", "p", "s", ":", "/", "/", "v", "i", "d", "e", "o", ".", "d", "m", "m", ".", "c", "o", ".", "j", "p", "/">>
Url_google ==
  <<"h", "t", "t", "p", "s", ":", "/", "/", "w", "w", "w", ".", "g", "o", "o", "g", "l", "e", ".", "c", "o", "m">>
Pat_dmm_co_jp ==
  <<"*", ".", "d", "m", "m", ".", "c", "o", ".", "j", "p">>
Pat_google ==
  <<"*", ".", "g", "o", "o", "g", "l", "e", ".", "c", "o", "m">>

Url_a_example ==
  <<"h", "t", "t", "p", "s", ":", "/", "/", "a", ".", "e", "x", "a", "m", "p", "l", "e", ".", "c", "o", "m", "/">>
Url_a_example_port ==
  <<"h", "t", "t", "p", "s", ":", "/", "/", "a", ".", "e", "x", "a", "m", "p", "l", "e", ".", "c", "o", "m", ":", "8", "4", "4", "3", "/">>
Url_example ==
  <<"h", "t", "t", "p", "s", ":", "/", "/", "e", "x", "a", "m", "p", "l", "e", ".", "c", "o", "m", "/">>
Url_example_path123 ==
  <<"h", "t", "t", "p", "s", ":", "/", "/", "e", "x", "a", "m", "p", "l", "e", ".", "c", "o", "m", "/", "p", "a", "t", "h", "1", "2", "3">>
Url_user_a_example ==
  <<"h", "t", "t", "p", "s", ":", "/", "/", "u", "s", "e", "r", "@", "a", ".", "e", "x", "a", "m", "p", "l", "e", ".", "c", "o", "m", "/">>
Pat_example ==
  <<"*", ".", "e", "x", "a", "m", "p", "l", "e", ".", "c", "o", "m">>
Pat_example_path ==
  <<"e", "x", "a", "m", "p", "l", "e", ".", "c", "o", "m", "/", "p", "a", "t", "h", "*">>

\* The urls fetched and the patterns the whitelist is built from.
FetchUrls == {Url_video_dmm, Url_google}
PatternPool == {Pat_dmm_co_jp, Pat_google}

\* The white_list a session is constructed with.
InitialWhiteLists == {{}, {Pat_dmm_co_jp}}

\* The urls and patterns of SpecMatch.
MatchUrls == {Url_a_example, Url_a_example_port, Url_example,
              Url_example_path123, Url_user_a_example}
MatchPatterns == {Pat_example, Pat_example_path, Pat_dmm_co_jp}

\* fetch(retries=...): None (the empty tuple), or an explicit count <<n>>.
None == <<>>
RetryArgs == {None, <<0>>, <<1>>}

Envs == {"direct", "proxy"}

(* ------------------------------- state -------------------------------- *)

VARIABLES
  max_pages,            \* the max_pages the session was constructed with
  _white_list,          \* self._white_list: set of patterns
  default_white_list,   \* the set that is the default of create(white_list=)
  holds_default,        \* self._white_list is that very set
  _pages_semaphore,     \* self._pages_semaphore: its free slots
  playwright_instance,  \* self.playwright_instance: "None" or "set"
  context_direct,       \* self.context_direct: "None" or "set"
  context_proxy,        \* self.context_proxy: "None" or "set"
  engine,               \* the playwright driver: "absent", "running", "stopped"
  env,                  \* each persistent context: "absent", "open", "closed"
  sentinel,             \* each context's placeholder page is open
  pages,                \* open pages created by fetch, per context
  close_tasks,          \* _close_page_later tasks scheduled and not yet run
  init_pc,              \* where create()/_init() stands
  close_pc,             \* where close() stands
  close_calls,          \* close() invocations begun
  close_log,            \* what the close() invocations did
  calls                 \* the fetch invocations

vars == <<max_pages, _white_list, default_white_list, holds_default, _pages_semaphore, playwright_instance, context_direct,
          context_proxy, engine, env, sentinel, pages, close_tasks, init_pc,
          close_pc, close_calls, close_log, calls>>

white_list_vars == <<_white_list, default_white_list, holds_default>>
session_vars == <<max_pages, playwright_instance, context_direct, context_proxy, engine,
                  env, sentinel, init_pc>>
closing_vars == <<close_pc, close_calls, close_log>>

\* A fetch call that has not been made.  Of a call under way: its
\* arguments, the context it took, its attempt, the context of each page it
\* opened, the except clause its last failed attempt ended in (failed_by)
\* and the sleep(1) calls it has made since (slept).
NoCall ==
  [pc |-> "idle", url |-> <<>>, retries |-> 0, abort |-> FALSE,
   selector |-> FALSE, context |-> "none", attempt |-> 0, opened |-> <<>>,
   failed_by |-> "none", slept |-> 0,
   result |-> [kind |-> "pending", attempt |-> 0]]

\* The fetch invocations made on the session, in the order they are made.
Calls == DOMAIN calls

\* Browser.__init__: the state of a Browser constructed with max_pages = k
\* and some initial white_list, on which n fetch calls will be made.
constructed(n, k) ==
  /\ max_pages = k
  /\ _white_list \in InitialWhiteLists
  /\ default_white_list = {}
  /\ holds_default = FALSE
  /\ _pages_semaphore = k
  /\ playwright_instance = "None"
  /\ context_direct = "None"
  /\ context_proxy = "None"
  /\ engine = "absent"
  /\ env = [e \in Envs |-> "absent"]
  /\ sentinel = [e \in Envs |-> FALSE]
  /\ pages = [e \in Envs |-> 0]
  /\ close_tasks = [e \in Envs |-> 0]
  /\ init_pc = [step |-> "new", env |-> "none", raised |-> "none"]
  /\ close_pc = "idle"
  /\ close_calls = 0
  /\ close_log = [raised |-> FALSE, on_closed |-> FALSE]
  /\ calls = [c \in 1..n |-> NoCall]

\* The state in which `await Browser.create(max_pages=k, ...)` returns the
\* Browser, its white_list aside: _init ran to its end, nothing else has
\* been called.
created_session(n, k) ==
  /\ max_pages = k
  /\ _pages_semaphore = k
  /\ playwright_instance = "set"
  /\ context_direct = "set"
  /\ context_proxy = "set"
  /\ engine = "running"
  /\ env = [e \in Envs |-> "open"]
  /\ sentinel = [e \in Envs |-> TRUE]
  /\ pages = [e \in Envs |-> 0]
  /\ close_tasks = [e \in Envs |-> 0]
  /\ init_pc = [step |-> "ready", env |-> "none", raised |-> "none"]
  /\ close_pc = "idle"
  /\ close_calls = 0
  /\ close_log = [raised |-> FALSE, on_closed |-> FALSE]
  /\ calls = [c \in 1..n |-> NoCall]

\* create(max_pages=k, white_list=w) for w in white_lists: the Browser
\* holds the set its caller passed (line 36).
created(n, k, white_lists) ==
  /\ created_session(n, k)
  /\ _white_list \in white_lists
  /\ default_white_list = {}
  /\ holds_default = FALSE

\* create(max_pages=k) with no white_list: the Browser holds the set object
\* that is the default of the parameter (lines 56, 75, 36), made once when
\* create was defined and holding what was put into it since.
created_by_default(n, k) ==
  /\ created_session(n, k)
  /\ default_white_list \in InitialWhiteLists
  /\ _white_list = default_white_list
  /\ holds_default = TRUE

\* Spec: a session of one slot, from its construction on.
Init == constructed(NCalls, 1)

\* SpecFetch: a created session of one slot.
InitFetch == created(NFetchCalls, 1, InitialWhiteLists)

\* SpecGate: a created session with half as many slots as calls are made on
\* it, so that a call can arrive while a woken call has not run yet.
InitGate == created(NGateCalls, NGateCalls \div 2, {{}})

\* SpecMatch: a created session whose white_list is any set of MatchPatterns.
InitMatch == created(NMatchCalls, 1, SUBSET MatchPatterns)

\* SpecLive: a created session with one slot fewer than the calls made on it.
InitLive == created(NLiveCalls, NLiveCalls - 1, InitialWhiteLists)

\* SpecShared: a session created with a white_list of its own, or with none.
InitShared ==
  \/ created(NSharedCalls, 1, InitialWhiteLists)
  \/ created_by_default(NSharedCalls, 1)

\* The context field of an environment.
context_field(e) == IF e = "direct" THEN context_direct ELSE context_proxy

(* --------------------------- create / _init --------------------------- *)

\* Where _init stands: its step, the context _get_context is building, and
\* the step whose exception ended it ("none" while none has).
at_init(step) == [step |-> step, env |-> "none", raised |-> "none"]
at_context(step, e) == [step |-> step, env |-> e, raised |-> "none"]

\* A failure anywhere in _init propagates out of create(): nothing is undone.
init_raise ==
  init_pc' = [step |-> "failed", env |-> "none", raised |-> init_pc.step]

\* An except clause that logs the failed install and goes on.
install_failed_swallowed == init_pc' = at_init("start")

\* _ensure_chromium_installed, lines 236-242: the failed install is written
\* to playwright_install_error.log and raised again.
install_failed == init_raise

\* create(): right after constructing the Browser, _init runs
\* _ensure_chromium_installed and, when the install succeeds, awaits
\* async_playwright().start().
ensure_chromium_installed(ok) ==
  /\ init_pc = at_init("new")
  /\ close_calls = 0
  /\ IF ok THEN init_pc' = at_init("start") ELSE install_failed
  /\ UNCHANGED <<max_pages, white_list_vars, _pages_semaphore, playwright_instance,
                 context_direct, context_proxy, engine, env, sentinel, pages,
                 close_tasks, closing_vars, calls>>

\* async_playwright().start() returns: the instance is stored and
\* _get_context('/direct') awaits launch_persistent_context.
playwright_started(ok) ==
  /\ init_pc = at_init("start")
  /\ IF ok
     THEN /\ playwright_instance' = "set"
          /\ engine' = "running"
          /\ init_pc' = at_context("launch", "direct")
     ELSE /\ init_raise
          /\ UNCHANGED <<playwright_instance, engine>>
  /\ UNCHANGED <<max_pages, white_list_vars, _pages_semaphore, context_direct, context_proxy,
                 env, sentinel, pages, close_tasks, closing_vars, calls>>

\* _get_context: launch_persistent_context returns; set_extra_http_headers
\* is awaited.
get_context_launched(ok) ==
  /\ init_pc.step = "launch"
  /\ IF ok
     THEN /\ env' = [env EXCEPT ![init_pc.env] = "open"]
          /\ init_pc' = at_context("headers", init_pc.env)
     ELSE /\ init_raise
          /\ UNCHANGED env
  /\ UNCHANGED <<max_pages, white_list_vars, _pages_semaphore, playwright_instance,
                 context_direct, context_proxy, engine, sentinel, pages,
                 close_tasks, closing_vars, calls>>

\* _get_context: set_extra_http_headers returns; context.new_page() is awaited.
get_context_headers(ok) ==
  /\ init_pc.step = "headers"
  /\ IF ok THEN init_pc' = at_context("new_page", init_pc.env) ELSE init_raise
  /\ UNCHANGED <<max_pages, white_list_vars, _pages_semaphore, playwright_instance,
                 context_direct, context_proxy, engine, env, sentinel, pages,
                 close_tasks, closing_vars, calls>>

\* _get_context: the placeholder page is open; page.set_content is awaited.
get_context_new_page(ok) ==
  /\ init_pc.step = "new_page"
  /\ IF ok
     THEN /\ sentinel' = [sentinel EXCEPT ![init_pc.env] = TRUE]
          /\ init_pc' = at_context("set_content", init_pc.env)
     ELSE /\ init_raise
          /\ UNCHANGED sentinel
  /\ UNCHANGED <<max_pages, white_list_vars, _pages_semaphore, playwright_instance,
                 context_direct, context_proxy, engine, env, pages,
                 close_tasks, closing_vars, calls>>

\* _get_context returns the context: _init stores it, then goes on to the
\* proxy context or returns (create() returns the Browser).
get_context_return(ok) ==
  /\ init_pc.step = "set_content"
  /\ IF ok
     THEN IF init_pc.env = "direct"
          THEN /\ context_direct' = "set"
               /\ init_pc' = at_context("launch", "proxy")
               /\ UNCHANGED context_proxy
          ELSE /\ context_proxy' = "set"
               /\ init_pc' = at_init("ready")
               /\ UNCHANGED context_direct
     ELSE /\ init_raise
          /\ UNCHANGED <<context_direct, context_proxy>>
  /\ UNCHANGED <<max_pages, white_list_vars, _pages_semaphore, playwright_instance, engine,
                 env, sentinel, pages, close_tasks, closing_vars, calls>>

(* ------------------------- white_list_update -------------------------- *)

\* An assignment in place of the update.
set_update_replacing(s, patterns) == patterns

\* set.update: the set after s.update(patterns).
set_update(s, patterns) == s \cup patterns

\* Browser.white_list_update: the set is updated in place, so that whoever
\* holds the same set object sees the patterns added.
white_list_update(whitel_list) ==
  /\ _white_list' = set_update(_white_list, whitel_list)
  /\ default_white_list' = IF holds_default THEN _white_list'
                           ELSE default_white_list
  /\ UNCHANGED <<holds_default, _pages_semaphore, session_vars, pages, close_tasks,
                 closing_vars, calls>>

\* Browser._is_whitelisted.
_is_whitelisted(url) == is_whitelisted_in(url, _white_list)

(* ------------------------------- close -------------------------------- *)

\* close(): the first await reached from the check of `stage` on: each
\* close/stop is awaited only when its field is set ("idle": close returns).
close_await_from(stage) ==
  LET stop  == IF playwright_instance = "set" THEN "stop" ELSE "idle"
      proxy == IF context_proxy = "set" THEN "proxy" ELSE stop
  IN  IF stage = "direct"
      THEN IF context_direct = "set" THEN "direct" ELSE proxy
      ELSE IF stage = "proxy" THEN proxy
      ELSE IF stage = "stop" THEN stop
      ELSE "idle"

\* The awaited operation acts on something already closed or stopped.
close_target_gone(stage, envs, eng) ==
  \/ stage \in Envs /\ envs[stage] = "closed"
  \/ stage = "stop" /\ eng = "stopped"

close_stage_after(stage) ==
  IF stage = "direct" THEN "proxy" ELSE IF stage = "proxy" THEN "stop" ELSE "end"

\* close() is called, on the Browser create() returned or on one constructed
\* and never initialized (a create() that raised gives its caller no Browser
\* to close): it runs up to its first await, or returns.
close_begin ==
  /\ close_pc = "idle"
  /\ close_calls < MaxCloseCalls
  /\ init_pc.step \in {"new", "ready"}
  /\ close_calls' = close_calls + 1
  /\ close_pc' = close_await_from("direct")
  /\ close_log' = [close_log EXCEPT
                     !.on_closed = @ \/ close_target_gone(close_pc', env, engine)]
  /\ UNCHANGED <<max_pages, white_list_vars, _pages_semaphore, session_vars, pages,
                 close_tasks, calls>>

\* BrowserContext.close() / Playwright.stop() took effect.
closed_state(stage) ==
  IF stage = "stop"
  THEN [engine |-> "stopped",
        env |-> [e \in Envs |-> IF env[e] = "open" THEN "closed" ELSE env[e]]]
  ELSE [engine |-> engine, env |-> [env EXCEPT ![stage] = "closed"]]

\* The awaited close/stop returns, or raises out of close().
close_return(ok) ==
  /\ close_pc # "idle"
  /\ IF ok
     THEN /\ engine' = closed_state(close_pc).engine
          /\ env' = closed_state(close_pc).env
          /\ sentinel' = [e \in Envs |-> sentinel[e] /\ env'[e] = "open"]
          /\ pages' = [e \in Envs |-> IF env'[e] = "open" THEN pages[e] ELSE 0]
          /\ close_pc' = close_await_from(close_stage_after(close_pc))
          /\ close_log' = [close_log EXCEPT
                             !.on_closed =
                               @ \/ close_target_gone(close_pc', env', engine')]
     ELSE /\ close_pc' = "idle"
          /\ close_log' = [close_log EXCEPT !.raised = TRUE]
          /\ UNCHANGED <<engine, env, sentinel, pages>>
  /\ UNCHANGED <<max_pages, white_list_vars, _pages_semaphore, playwright_instance,
                 context_direct, context_proxy, close_tasks, init_pc,
                 close_calls, calls>>

(* ------------------------------- fetch -------------------------------- *)

\* fetch line 105: retries = self._max_retry_default if not retries else retries
\* (None and 0 are both falsy).
effective_retries(retries_arg) ==
  IF retries_arg = None \/ retries_arg[1] = 0 THEN max_retry_default
  ELSE retries_arg[1]

\* The two contexts taken for each other.
select_context_swapped(url) == IF _is_whitelisted(url) THEN "direct" ELSE "proxy"

\* fetch line 108: the context the call keeps for all its attempts.
select_context(url) == IF _is_whitelisted(url) THEN "proxy" ELSE "direct"

\* fetch line 108 on another Browser of the process that was created with
\* no white_list, whose _white_list is the default set white_list.
peer_select_context(url, white_list) ==
  IF is_whitelisted_in(url, white_list) THEN "proxy" ELSE "direct"

\* An acquire() that takes no slot.
sem_acquire_takes_nothing(value) == value

\* asyncio.Semaphore: `self._value -= 1` where a slot is taken (in acquire()
\* and in _wake_up_next()), `self._value += 1` of release().
sem_acquire(value) == value - 1
sem_release(value) == value + 1

\* The content of the first attempt's page, whichever attempt succeeded.
content_of_first_attempt(n) == [kind |-> "content", attempt |-> 1]

\* What a fetch call gives its caller: the html page.content() returned for
\* the page of attempt n, None, or an exception.
content_of(n) == [kind |-> "content", attempt |-> n]
returns_None == [kind |-> "None", attempt |-> 0]
raises == [kind |-> "exception", attempt |-> 0]

\* The task running fetch was cancelled: asyncio.CancelledError, which
\* neither except clause of fetch takes, leaves fetch.
cancelled == [kind |-> "cancelled", attempt |-> 0]

\* What leaves fetch when an awaited operation outside the try (lines 110,
\* 117) does not return.
raised_by(outcome) == IF outcome = "cancelled" THEN cancelled ELSE raises

\* fetch(url, retries, abort, selector) is called on the session create()
\* returned: retries is resolved and the call is about to enter
\* `async with self._pages_semaphore`.  Calls are numbered in the order they
\* are made.
fetch(c, url, retries_arg, abort, selector) ==
  /\ calls[c].pc = "idle"
  /\ \A d \in Calls : d < c => calls[d].pc # "idle"
  /\ init_pc.step = "ready"
  /\ calls' = [calls EXCEPT ![c] =
       [NoCall EXCEPT !.pc = "acquire", !.url = url,
                      !.retries = effective_retries(retries_arg),
                      !.abort = abort, !.selector = selector]]
  /\ UNCHANGED <<white_list_vars, _pages_semaphore, session_vars, pages,
                 close_tasks, closing_vars>>

\* Semaphore.locked(): no slot is free, or a call is in _waiters (a call
\* that waits, or one that was woken and has not run yet).
locked(cs, value) ==
  value = 0 \/ \E d \in Calls : cs[d].pc \in {"waiting", "woken"}

\* A _wake_up_next() that wakes no call.
wake_up_nobody(cs, value) == [calls |-> cs, value |-> value]

\* Semaphore._wake_up_next(): the first call of _waiters whose future is not
\* done gets the slot (`self._value -= 1`) and its future a result.  _waiters
\* holds the calls in the order they entered acquire(), which is the order of
\* their numbers.  Gives the calls and the value it leaves.
_wake_up_next(cs, value) ==
  IF \A d \in Calls : cs[d].pc # "waiting"
  THEN [calls |-> cs, value |-> value]
  ELSE [calls |-> [cs EXCEPT ![CHOOSE d \in Calls :
                                  /\ cs[d].pc = "waiting"
                                  /\ \A e \in Calls :
                                       cs[e].pc = "waiting" => d <= e].pc
                                = "woken"],
        value |-> sem_acquire(value)]

\* Semaphore.release(): `self._value += 1`, then _wake_up_next().
sem_released(cs, value) == _wake_up_next(cs, sem_release(value))

\* The call, its slot taken, goes on after `async with` (line 108) with
\* `context` and awaits its first context.new_page().
slot_taken(c, context) ==
  [calls EXCEPT ![c] =
     [calls[c] EXCEPT !.pc = "new_page", !.context = context, !.attempt = 1]]

\* Semaphore.acquire() of call c, as far as it runs without suspending.  On
\* entry: with the semaphore not locked the slot is taken and acquire()
\* returns; otherwise the call joins _waiters and suspends on its future.
\* Resumed by _wake_up_next(), which took the slot for it: the call leaves
\* _waiters, wakes the next call if a slot is free, and acquire() returns.
sem_acquired(c, context) ==
  IF calls[c].pc = "woken"
  THEN IF _pages_semaphore > 0
       THEN _wake_up_next(slot_taken(c, context), _pages_semaphore)
       ELSE [calls |-> slot_taken(c, context), value |-> _pages_semaphore]
  ELSE IF locked(calls, _pages_semaphore)
       THEN [calls |-> [calls EXCEPT ![c].pc = "waiting"],
             value |-> _pages_semaphore]
       ELSE [calls |-> slot_taken(c, context),
             value |-> sem_acquire(_pages_semaphore)]

\* The call runs `async with self._pages_semaphore` (entering acquire(), the
\* calls made before it having entered, or resumed in it) up to its next
\* suspension.
acquire_with(c, context) ==
  /\ calls[c].pc \in {"acquire", "woken"}
  /\ calls[c].pc = "acquire" =>
       \A d \in Calls : d < c => calls[d].pc # "acquire"
  /\ calls' = sem_acquired(c, context).calls
  /\ _pages_semaphore' = sem_acquired(c, context).value
  /\ UNCHANGED <<white_list_vars, session_vars, pages, close_tasks, closing_vars>>

\* Lines 107-108: the context is chosen by the whitelist as it is when
\* acquire() returns.
acquire(c) == acquire_with(c, select_context(calls[c].url))

\* The record a call leaves when fetch ends: its arguments go with its
\* frame; what it did and gave stays on record.
left(c, call, pc, result) ==
  [calls EXCEPT ![c] =
     [call EXCEPT !.pc = pc, !.result = result, !.url = NoCall.url,
                  !.abort = NoCall.abort, !.selector = NoCall.selector,
                  !.failed_by = NoCall.failed_by, !.slept = NoCall.slept]]

\* A release() on `return` only: an exception leaves with the slot held.
leave_releasing_on_return_only(c, call, pc, result) ==
  /\ calls' = IF pc = "returned"
              THEN sem_released(left(c, call, pc, result), _pages_semaphore).calls
              ELSE left(c, call, pc, result)
  /\ _pages_semaphore' =
       IF pc = "returned"
       THEN sem_released(left(c, call, pc, result), _pages_semaphore).value
       ELSE _pages_semaphore

\* The call leaves `async with` (return or exception): __aexit__ releases
\* the slot, which goes to the first waiting call if there is one.
leave(c, call, pc, result) ==
  /\ calls' = sem_released(left(c, call, pc, result), _pages_semaphore).calls
  /\ _pages_semaphore' =
       sem_released(left(c, call, pc, result), _pages_semaphore).value

\* The task of the call is cancelled before it has a slot.  Not started yet
\* or waiting in acquire(): fetch ends and the semaphore is as it was.
\* Woken by _wake_up_next(): acquire() gives the slot it was handed back
\* (`self._value += 1`, then _wake_up_next()) and raises.
acquire_cancelled(c) ==
  /\ calls[c].pc \in {"acquire", "waiting", "woken"}
  /\ IF calls[c].pc = "woken"
     THEN leave(c, calls[c], "raised", cancelled)
     ELSE /\ calls' = left(c, calls[c], "raised", cancelled)
          /\ UNCHANGED _pages_semaphore
  /\ UNCHANGED <<white_list_vars, session_vars, pages, close_tasks, closing_vars>>

\* asyncio.create_task(self._close_page_later(page, ...)) for a page of e.
schedule_close(e) == close_tasks' = [close_tasks EXCEPT ![e] = @ + 1]

\* The route chosen anew for each attempt.
page_context_reselected(call) == select_context(call.url)

\* Line 110: the context the page of an attempt is opened on, the local
\* `context` set before the loop.
page_context(call) == call.context

\* context.new_page() returns the page, or raises (line 110 is outside the
\* try: whatever is raised leaves fetch).  With abort given, page.route is
\* awaited next, else page.goto.
new_page_return(c, outcome) ==
  LET call == calls[c] IN
  /\ call.pc = "new_page"
  /\ outcome = "ok" => env[page_context(call)] = "open"
  /\ IF outcome = "ok"
     THEN /\ pages' = [pages EXCEPT ![page_context(call)] = @ + 1]
          /\ calls' = [calls EXCEPT ![c] =
               [call EXCEPT !.opened = Append(@, page_context(call)),
                            !.pc = IF call.abort THEN "route" ELSE "goto"]]
          /\ UNCHANGED _pages_semaphore
     ELSE /\ leave(c, call, "raised", raised_by(outcome))
          /\ UNCHANGED pages
  /\ UNCHANGED <<white_list_vars, session_vars, close_tasks, closing_vars>>

\* page.route returns, or raises (line 117 is outside the try as well:
\* whatever is raised leaves fetch and no close of the page is scheduled).
route_return(c, outcome) ==
  LET call == calls[c] IN
  /\ call.pc = "route"
  /\ outcome = "ok" => env[call.context] = "open"
  /\ IF outcome = "ok"
     THEN /\ calls' = [calls EXCEPT ![c] = [call EXCEPT !.pc = "goto"]]
          /\ UNCHANGED _pages_semaphore
     ELSE leave(c, call, "raised", raised_by(outcome))
  /\ UNCHANGED <<white_list_vars, session_vars, pages, close_tasks, closing_vars>>

\* The timeout branch given the backoff of the other branch.
on_timeout_sleeping(c, call) ==
  /\ schedule_close(call.context)
  /\ IF call.attempt > call.retries
     THEN leave(c, call, "returned", returns_None)
     ELSE /\ calls' = [calls EXCEPT ![c] =
                 [call EXCEPT !.pc = "sleep", !.failed_by = "timeout",
                              !.slept = 0]]
          /\ UNCHANGED _pages_semaphore

\* Lines 128-132: except PlaywrightTimeoutError.
on_timeout(c, call) ==
  /\ schedule_close(call.context)
  /\ IF call.attempt > call.retries
     THEN leave(c, call, "returned", returns_None)
     ELSE /\ calls' = [calls EXCEPT ![c] =
                 [call EXCEPT !.pc = "new_page", !.attempt = @ + 1,
                              !.failed_by = "timeout", !.slept = 0]]
          /\ UNCHANGED _pages_semaphore

\* Lines 133-138: except Exception.
on_exception(c, call) ==
  /\ schedule_close(call.context)
  /\ IF call.attempt > call.retries
     THEN leave(c, call, "returned", returns_None)
     ELSE /\ calls' = [calls EXCEPT ![c] =
                 [call EXCEPT !.pc = "sleep", !.failed_by = "exception",
                              !.slept = 0]]
          /\ UNCHANGED _pages_semaphore

\* asyncio.CancelledError inside the try: a BaseException, taken by neither
\* except clause.  It leaves fetch, and no close of the page is scheduled.
on_cancelled(c, call) ==
  /\ leave(c, call, "raised", cancelled)
  /\ UNCHANGED close_tasks

\* An awaited step of the try block ended in a timeout, another exception or
\* the cancellation of the task.
on_failure(c, call, outcome) ==
  IF outcome = "timeout" THEN on_timeout(c, call)
  ELSE IF outcome = "cancelled" THEN on_cancelled(c, call)
  ELSE on_exception(c, call)

\* page.goto returns or raises.
goto_return(c, outcome) ==
  LET call == calls[c] IN
  /\ call.pc = "goto"
  /\ outcome = "ok" => env[call.context] = "open"
  /\ IF outcome = "ok"
     THEN /\ calls' = [calls EXCEPT ![c] =
               [call EXCEPT !.pc = IF call.selector THEN "wait_for_selector"
                                   ELSE "content"]]
          /\ UNCHANGED <<_pages_semaphore, close_tasks>>
     ELSE on_failure(c, call, outcome)
  /\ UNCHANGED <<white_list_vars, session_vars, pages, closing_vars>>

\* page.wait_for_selector returns or raises.
wait_for_selector_return(c, outcome) ==
  LET call == calls[c] IN
  /\ call.pc = "wait_for_selector"
  /\ outcome = "ok" => env[call.context] = "open"
  /\ IF outcome = "ok"
     THEN /\ calls' = [calls EXCEPT ![c] = [call EXCEPT !.pc = "content"]]
          /\ UNCHANGED <<_pages_semaphore, close_tasks>>
     ELSE on_failure(c, call, outcome)
  /\ UNCHANGED <<white_list_vars, session_vars, pages, closing_vars>>

\* page.content() returns (lines 123-127: the close is scheduled and the
\* content returned) or raises, inside the try as goto does.
content_return(c, outcome) ==
  LET call == calls[c] IN
  /\ call.pc = "content"
  /\ outcome = "ok" => env[call.context] = "open"
  /\ IF outcome = "ok"
     THEN /\ schedule_close(call.context)
          /\ leave(c, call, "returned", content_of(call.attempt))
     ELSE on_failure(c, call, outcome)
  /\ UNCHANGED <<white_list_vars, session_vars, pages, closing_vars>>

\* asyncio.sleep(1) of line 138 returns: the next attempt's page is asked
\* for.  Cancelled, it raises out of the except clause and fetch ends; the
\* close of the page was scheduled before the sleep.
sleep_return(c, outcome) ==
  LET call == calls[c] IN
  /\ call.pc = "sleep"
  /\ IF outcome = "ok"
     THEN /\ calls' = [calls EXCEPT ![c] =
                [call EXCEPT !.pc = "new_page", !.attempt = @ + 1,
                             !.slept = @ + 1]]
          /\ UNCHANGED _pages_semaphore
     ELSE leave(c, call, "raised", cancelled)
  /\ UNCHANGED <<white_list_vars, session_vars, pages, close_tasks,
                 closing_vars>>

\* A page.close() that takes the placeholder page of the context with it.
sentinel_closed_too(e) == [sentinel EXCEPT ![e] = FALSE]

\* page.close() of line 163 closes the page the task was given, a page that
\* fetch opened (line 110): the placeholder page of the context, another
\* page, stays as it is.
sentinel_after_page_close(e) == sentinel

\* _close_page_later: after its sleep the task closes the page; a failure is
\* logged and the page stays as it is.
_close_page_later(e, ok) ==
  /\ close_tasks[e] > 0
  /\ close_tasks' = [close_tasks EXCEPT ![e] = @ - 1]
  /\ pages' = IF ok /\ pages[e] > 0 THEN [pages EXCEPT ![e] = @ - 1] ELSE pages
  /\ sentinel' = IF ok /\ pages[e] > 0 THEN sentinel_after_page_close(e)
                 ELSE sentinel
  /\ UNCHANGED <<white_list_vars, _pages_semaphore, max_pages, playwright_instance,
                 context_direct, context_proxy, engine, env, init_pc,
                 closing_vars, calls>>

(* ---------------------------- specification --------------------------- *)

\* How an awaited playwright operation ends: it returns, raises playwright's
\* TimeoutError, raises another exception, or the task is cancelled while it
\* waits (asyncio.CancelledError).
Outcomes == {"ok", "timeout", "exception", "cancelled"}

\* How asyncio.sleep ends.
SleepOutcomes == {"ok", "cancelled"}

\* The whole session, from construction to close(): every operation, with
\* fetch calls that wait for no selector.
Next ==
  \/ \E ok \in BOOLEAN : ensure_chromium_installed(ok)
  \/ \E ok \in BOOLEAN : playwright_started(ok)
  \/ \E ok \in BOOLEAN : get_context_launched(ok)
  \/ \E ok \in BOOLEAN : get_context_headers(ok)
  \/ \E ok \in BOOLEAN : get_context_new_page(ok)
  \/ \E ok \in BOOLEAN : get_context_return(ok)
  \/ \E whitel_list \in SUBSET PatternPool : white_list_update(whitel_list)
  \/ close_begin
  \/ \E ok \in BOOLEAN : close_return(ok)
  \/ \E c \in Calls, url \in FetchUrls, abort \in BOOLEAN :
        fetch(c, url, <<1>>, abort, FALSE)
  \/ \E c \in Calls : acquire(c)
  \/ \E c \in Calls : acquire_cancelled(c)
  \/ \E c \in Calls, o \in Outcomes : new_page_return(c, o)
  \/ \E c \in Calls, o \in Outcomes : route_return(c, o)
  \/ \E c \in Calls, o \in Outcomes : goto_return(c, o)
  \/ \E c \in Calls, o \in Outcomes : content_return(c, o)
  \/ \E c \in Calls, o \in SleepOutcomes : sleep_return(c, o)
  \/ \E e \in Envs, ok \in BOOLEAN : _close_page_later(e, ok)

Spec == Init /\ [][Next]_vars

\* The fetch calls of a created session, with every argument varied, and the
\* whitelist updates made meanwhile.  close() is not called and the
\* scheduled page closes have not run yet.
NextFetch ==
  \/ \E whitel_list \in SUBSET PatternPool : white_list_update(whitel_list)
  \/ \E c \in Calls, url \in FetchUrls, r \in RetryArgs,
        abort \in BOOLEAN, selector \in BOOLEAN :
          fetch(c, url, r, abort, selector)
  \/ \E c \in Calls : acquire(c)
  \/ \E c \in Calls : acquire_cancelled(c)
  \/ \E c \in Calls, o \in Outcomes : new_page_return(c, o)
  \/ \E c \in Calls, o \in Outcomes : route_return(c, o)
  \/ \E c \in Calls, o \in Outcomes : goto_return(c, o)
  \/ \E c \in Calls, o \in Outcomes : wait_for_selector_return(c, o)
  \/ \E c \in Calls, o \in Outcomes : content_return(c, o)
  \/ \E c \in Calls, o \in SleepOutcomes : sleep_return(c, o)

SpecFetch == InitFetch /\ [][NextFetch]_vars

\* The same calls and updates on a session that may hold the default
\* white_list of create.
SpecShared == InitShared /\ [][NextFetch]_vars

\* More concurrent fetch calls than slots on a created session; the calls
\* pass neither abort nor selector.
NextGate ==
  \/ \E c \in Calls : fetch(c, Url_google, <<1>>, FALSE, FALSE)
  \/ \E c \in Calls : acquire(c)
  \/ \E c \in Calls : acquire_cancelled(c)
  \/ \E c \in Calls, o \in Outcomes : new_page_return(c, o)
  \/ \E c \in Calls, o \in Outcomes : goto_return(c, o)
  \/ \E c \in Calls, o \in Outcomes : content_return(c, o)
  \/ \E c \in Calls, o \in SleepOutcomes : sleep_return(c, o)

SpecGate == InitGate /\ [][NextGate]_vars

\* The next step of a fetch call that has been made: it enters acquire() or
\* is resumed in it (whichever context the call then takes), or the
\* operation it awaits returns or raises.
call_step(c) ==
  \/ \E context \in Envs : acquire_with(c, context)
  \/ \E o \in Outcomes : new_page_return(c, o)
  \/ \E o \in Outcomes : route_return(c, o)
  \/ \E o \in Outcomes : goto_return(c, o)
  \/ \E o \in Outcomes : wait_for_selector_return(c, o)
  \/ \E o \in Outcomes : content_return(c, o)
  \/ \E o \in SleepOutcomes : sleep_return(c, o)

\* More concurrent fetch calls than slots; each call passes abort and
\* selector, so that it suspends at every await of fetch.
NextLive ==
  \/ \E c \in Calls : fetch(c, Url_google, <<1>>, TRUE, TRUE)
  \/ \E c \in Calls : acquire(c)
  \/ \E c \in Calls : acquire_cancelled(c)
  \/ \E c \in Calls, o \in Outcomes : new_page_return(c, o)
  \/ \E c \in Calls, o \in Outcomes : route_return(c, o)
  \/ \E c \in Calls, o \in Outcomes : goto_return(c, o)
  \/ \E c \in Calls, o \in Outcomes : wait_for_selector_return(c, o)
  \/ \E c \in Calls, o \in Outcomes : content_return(c, o)
  \/ \E c \in Calls, o \in SleepOutcomes : sleep_return(c, o)

\* These calls on a session that is not closed, where every awaited
\* operation of a call ends at last and the event loop resumes the call: a
\* call that can take a step does not wait forever.  That a task is
\* cancelled is never required.
SpecLive ==
  InitLive /\ [][NextLive]_vars /\ \A c \in 1..NLiveCalls : WF_vars(call_step(c))

\* _is_whitelisted applied (by the route selection of a fetch call) to each
\* url of MatchUrls under each white_list drawn from MatchPatterns.
NextMatch ==
  \/ \E c \in Calls, url \in MatchUrls : fetch(c, url, <<1>>, FALSE, FALSE)
  \/ \E c \in Calls : acquire(c)
  \/ \E c \in Calls : acquire_cancelled(c)
  \/ \E c \in Calls, o \in Outcomes : new_page_return(c, o)
  \/ \E c \in Calls, o \in Outcomes : goto_return(c, o)
  \/ \E c \in Calls, o \in Outcomes : content_return(c, o)
  \/ \E c \in Calls, o \in SleepOutcomes : sleep_return(c, o)

SpecMatch == InitMatch /\ [][NextMatch]_vars

(* ------------------------------- claims ------------------------------- *)

\* The call is inside `async with self._pages_semaphore`.
InFlight(c) ==
  calls[c].pc \in {"new_page", "route", "goto", "wait_for_selector",
                   "content", "sleep"}

\* The call has a slot: it is inside `async with`, or a release() gave it the
\* slot and it has not run since.
HasSlot(c) == InFlight(c) \/ calls[c].pc = "woken"

\* The call is between opening its first page and leaving fetch.
HoldsPage(c) == InFlight(c) /\ Len(calls[c].opened) >= 1

\* The call has left fetch, by return or by exception.
Ended(c) == calls[c].pc \in {"returned", "raised"}

\* C1: with max_pages = k and more than k concurrent fetch calls, at most k
\* calls are between opening their first page and returning, in every
\* reachable state (SpecGate: 2k calls, k = 2).
C1_AtMostMaxPagesHoldPage ==
  Cardinality({c \in Calls : HoldsPage(c)}) <= max_pages

\* C1 witness: k calls hold a page while another call waits for a slot.
C1_Witness ==
  /\ Cardinality(Calls) > max_pages
  /\ Cardinality({c \in Calls : HoldsPage(c)}) = max_pages
  /\ \E c \in Calls : calls[c].pc = "waiting"

\* C2: every fetch call takes exactly one slot and gives it back exactly
\* once, on every exit path: the free slots are the capacity less the calls
\* that have one (a slot given back goes straight to the first waiting call),
\* so with no call in flight they equal the capacity.
C2_SlotPerCallInFlight ==
  _pages_semaphore = max_pages - Cardinality({c \in Calls : HasSlot(c)})

\* C2 witness: one call left by an exception, one was cancelled, one
\* returned None after its retries, one returned content, none is in flight
\* and every slot is free.
C2_Witness ==
  /\ Cardinality(Calls) > max_pages
  /\ \E c \in Calls : calls[c].pc = "raised" /\ calls[c].result = raises
  /\ \E c \in Calls : calls[c].pc = "raised" /\ calls[c].result = cancelled
  /\ \E c \in Calls : calls[c].pc = "returned" /\ calls[c].result.kind = "None"
  /\ \E c \in Calls : calls[c].result.kind = "content"
  /\ \A c \in Calls : Ended(c)
  /\ _pages_semaphore = max_pages

\* C3: a fetch call none of whose attempts succeeds (and whose task is not
\* cancelled) makes exactly retries + 1 attempts, opening retries + 1 pages,
\* and returns None without raising.
C3_AllAttemptsFailReturnsNone ==
  \A c \in Calls :
    (Ended(c) /\ calls[c].result.kind \notin {"content", "cancelled"}) =>
      /\ calls[c].result.kind = "None"
      /\ calls[c].attempt = calls[c].retries + 1
      /\ Len(calls[c].opened) = calls[c].retries + 1

\* C4: when attempt j succeeds after attempts 1..j-1 failed, the call made
\* exactly j attempts (j <= retries + 1), returns the content extracted by
\* attempt j and opens no page after it: once it has the content, and ever
\* after, it has opened j pages.
C4_SuccessAtAttemptJ ==
  \A c \in Calls :
    calls[c].result.kind = "content" =>
      /\ calls[c].pc = "returned"
      /\ calls[c].result.attempt = calls[c].attempt
      /\ Len(calls[c].opened) = calls[c].attempt
      /\ calls[c].attempt <= calls[c].retries + 1

\* C4 witness: a call whose first attempt failed returned the content of
\* its second attempt.
C4_Witness ==
  \E c \in Calls :
    /\ calls[c].pc = "returned"
    /\ calls[c].result = content_of(2)
    /\ Len(calls[c].opened) = 2

\* C5: a failure while opening an attempt's page, or while installing its
\* interception rule, is retried and never raised to the caller of fetch:
\* nothing but the cancellation of its task makes a call raise.
C5_OpenFailureNotRaised ==
  \A c \in Calls : calls[c].pc = "raised" => calls[c].result = cancelled

\* The route the whitelist in force gives the url of the call.
RouteNow(c) ==
  IF is_whitelisted_in(calls[c].url, _white_list) THEN "proxy" ELSE "direct"

\* C6, route selection: the context a call takes is the proxied one if the
\* whitelist matches its url at that moment and the direct one otherwise;
\* with the patterns of this model, the proxied one exactly for
\* https://video.dmm.co.jp/ under "*.dmm.co.jp" and for
\* https://www.google.com under "*.google.com".
C6_SelectionStep ==
  \A c \in Calls :
    (calls[c].pc \in {"acquire", "woken"} /\ calls'[c].pc = "new_page") =>
      /\ calls'[c].context = RouteNow(c)
      /\ (calls'[c].context = "proxy") <=>
           \/ calls[c].url = Url_video_dmm /\ Pat_dmm_co_jp \in _white_list
           \/ calls[c].url = Url_google /\ Pat_google \in _white_list

\* C6, pages: every page a call opened is on the context it took.
C6_PagesOnSelected ==
  \A c \in Calls : \A i \in 1..Len(calls[c].opened) :
    calls[c].opened[i] = calls[c].context

\* C6: every page opened by a fetch call is on the proxied context if the
\* whitelist matched the url at the moment of route selection, and on the
\* direct context otherwise.
C6_RouteByWhitelist == [][C6_SelectionStep]_vars /\ []C6_PagesOnSelected

\* C6 witness: under the whitelist {"*.dmm.co.jp"} a call fetching
\* https://video.dmm.co.jp/ has opened a page on the proxied context.
C6_Witness ==
  \E c \in Calls :
    /\ _white_list = {Pat_dmm_co_jp}
    /\ calls[c].url = Url_video_dmm
    /\ calls[c].opened = <<"proxy">>

\* C7: all pages of one fetch call, over all its attempts, are opened on the
\* same context, whatever whitelist updates are made meanwhile.
C7_OneContextPerCall ==
  \A c \in Calls : \A i \in 1..Len(calls[c].opened) :
    calls[c].opened[i] = calls[c].opened[1]

\* C7 witness: a call routed directly opened its second page on the direct
\* context although the whitelist, updated meanwhile, now matches its url.
C7_Witness ==
  \E c \in Calls :
    /\ InFlight(c)
    /\ calls[c].opened = <<"direct", "direct">>
    /\ RouteNow(c) = "proxy"

\* C8: matches(url) holds exactly when some stored pattern glob-matches the
\* url's hostname or its hostname followed by its path, so that port and
\* userinfo play no part (checked on the route each call of SpecMatch took).
C8_MatchesHostnameAndPath ==
  \A c \in Calls :
    InFlight(c) =>
      ((calls[c].context = "proxy") <=>
         \E pattern \in _white_list :
           \/ fnmatch(url_hostname(calls[c].url), pattern)
           \/ fnmatch(url_hostname(calls[c].url)
                        \o urlparse(calls[c].url).path, pattern))

\* C9, update: a white_list_update(P) step leaves the store as old \cup P.
C9_UpdateStep ==
  \A P \in SUBSET PatternPool :
    white_list_update(P) => _white_list' = _white_list \cup P

\* C9, growth: no step of the session removes a pattern, and a url the
\* whitelist matched is matched after the step (C9_Matched: the pairs of a
\* store and a url it matches, as _is_whitelisted decides).
C9_Matched ==
  UNION { { <<white_list, url>> :
              url \in {u \in FetchUrls : is_whitelisted_in(u, white_list)} } :
          white_list \in SUBSET PatternPool }

C9_GrowthStep ==
  /\ _white_list \subseteq _white_list'
  /\ \A url \in FetchUrls :
       <<_white_list, url>> \in C9_Matched =>
         <<_white_list', url>> \in C9_Matched

\* C9, idempotence: a second update(P) changes nothing the first left.
C9_Idempotent ==
  \A P \in SUBSET PatternPool :
    set_update(set_update(_white_list, P), P) = set_update(_white_list, P)

\* C9: white_list_update is additive and idempotent, and the store never
\* loses a pattern.
C9_WhitelistGrows ==
  [][C9_UpdateStep /\ C9_GrowthStep]_vars /\ []C9_Idempotent

\* C9 witness: an update added "*.google.com" to a store that held
\* "*.dmm.co.jp", which it still holds.
C9_Witness ==
  /\ _white_list = {Pat_dmm_co_jp, Pat_google}
  /\ is_whitelisted_in(Url_video_dmm, _white_list)
  /\ is_whitelisted_in(Url_google, _white_list)

\* C10: close() is idempotent: as long as no close() has raised, no close()
\* acts on a context already closed or an engine already stopped, and after
\* the second close() no context is open.
C10_CloseIdempotent ==
  ~close_log.raised =>
    /\ ~close_log.on_closed
    /\ (close_calls = 2 /\ close_pc = "idle") => \A e \in Envs : env[e] # "open"

\* C11: close() tears down the direct context, the proxied context and the
\* engine independently and raises nothing: once a close() of the created
\* session has ended, no close() has raised, no context is open and the
\* engine is not running.
C11_CloseTearsDownAll ==
  (init_pc.step = "ready" /\ close_calls >= 1 /\ close_pc = "idle") =>
    /\ ~close_log.raised
    /\ \A e \in Envs : env[e] # "open"
    /\ engine # "running"

\* C12: max_pages bounds the pages open at the same time: in every
\* reachable state the pages opened by fetch and not yet closed, over both
\* contexts (the placeholder pages aside), are at most max_pages.
C12_AtMostMaxPagesOpen ==
  pages["direct"] + pages["proxy"] <= max_pages

\* C13, the failing step: when the install of the browser fails, create()
\* raises at that step and nothing has been started.
C13_InstallFailStep ==
  ensure_chromium_installed(FALSE) =>
    /\ init_pc'.step = "failed"
    /\ init_pc'.raised = "new"
    /\ engine' = "absent"
    /\ playwright_instance' = "None"
    /\ \A e \in Envs : env'[e] = "absent"

\* C13, never Ready: a create() that raised stays failed.
C13_FailedStays ==
  init_pc.step = "failed" => init_pc' = init_pc

\* C13, uninitialized: after a failed install no engine and no context
\* exists, no field is set and no fetch call is made.
C13_Uninitialized ==
  (init_pc.step = "failed" /\ init_pc.raised = "new") =>
    /\ engine = "absent"
    /\ \A e \in Envs : env[e] = "absent" /\ ~sentinel[e]
    /\ playwright_instance = "None"
    /\ context_direct = "None" /\ context_proxy = "None"
    /\ \A c \in Calls : calls[c].pc = "idle"

\* C13: if the install of the browser binary or its dependencies fails,
\* create() raises, the session never becomes ready and neither the engine
\* nor a context has been started.
C13_InstallFailureAborts ==
  [][C13_InstallFailStep /\ C13_FailedStays]_vars /\ []C13_Uninitialized

\* C13 witness: create() has raised at the install, with nothing started.
C13_Witness ==
  /\ init_pc.step = "failed"
  /\ init_pc.raised = "new"
  /\ engine = "absent"
  /\ \A e \in Envs : env[e] = "absent"

\* C14: from the moment create() has returned until close() is called, each
\* context is open with its placeholder page open: no fetch call and no
\* deferred page close closes it.
C14_SentinelStaysOpen ==
  (init_pc.step = "ready" /\ close_calls = 0) =>
    \A e \in Envs : env[e] = "open" /\ sentinel[e]

\* C14 witness: a fetch call has returned after two attempts, the deferred
\* closes of both its pages have run, and both placeholder pages are open.
C14_Witness ==
  /\ init_pc.step = "ready" /\ close_calls = 0
  /\ \E c \in Calls : calls[c].pc = "returned" /\ Len(calls[c].opened) = 2
  /\ \A e \in Envs : pages[e] = 0 /\ close_tasks[e] = 0 /\ sentinel[e]

\* C15, the step of a call: fetch(url, retries=r) runs with the retry count
\* r when one is given, 0 included, and with max_retry_default when none is.
C15_ResolveStep ==
  \A c \in Calls, url \in FetchUrls, r \in RetryArgs,
     abort \in BOOLEAN, selector \in BOOLEAN :
       fetch(c, url, r, abort, selector) =>
         calls'[c].retries = IF r = None THEN max_retry_default ELSE r[1]

\* C15: the effective retry count of a fetch call is the retries value its
\* caller supplied whenever one is supplied, an explicit 0 included, and the
\* session default only when none is.
C15_ExplicitRetriesKept == [][C15_ResolveStep]_vars

\* C16: the two failure branches keep their own backoff.  A call sleeps
\* only after an attempt that ended in `except Exception` and was not its
\* last; an attempt after the first follows a timeout with no sleep in
\* between, or another failure with exactly one sleep(1) in between.
C16_BackoffPerBranch ==
  \A c \in Calls :
    /\ calls[c].pc = "sleep" =>
         /\ calls[c].failed_by = "exception"
         /\ calls[c].slept = 0
         /\ calls[c].attempt <= calls[c].retries
    /\ (InFlight(c) /\ calls[c].pc # "sleep") =>
         /\ calls[c].attempt = 1 =>
              calls[c].failed_by = "none" /\ calls[c].slept = 0
         /\ calls[c].attempt > 1 =>
              \/ calls[c].failed_by = "timeout" /\ calls[c].slept = 0
              \/ calls[c].failed_by = "exception" /\ calls[c].slept = 1

\* C16 witness: a call whose first attempt timed out and whose second ended
\* in another failure has opened its third page after one sleep, the only
\* one it made.
C16_Witness ==
  \E c \in Calls :
    /\ calls[c].attempt = 3
    /\ Len(calls[c].opened) = 3
    /\ calls[c].failed_by = "exception"
    /\ calls[c].slept = 1
    /\ close_tasks[calls[c].context] = 2

\* The attempt of the call is under way on its latest page.
C17_AttemptUnderWay(c) ==
  calls[c].pc \in {"route", "goto", "wait_for_selector", "content"}

\* The pages, as <<call, attempt>>, whose attempt is over.
C17_PagesOfEndedAttempts ==
  UNION { { <<c, i>> : i \in 1..(IF C17_AttemptUnderWay(c)
                                 THEN Len(calls[c].opened) - 1
                                 ELSE Len(calls[c].opened)) } :
          c \in Calls }

\* C17: every page a fetch attempt opened gets exactly one deferred close
\* scheduled when the attempt ends, whatever its outcome: with none of the
\* scheduled closes run yet and no call cancelled, they are as many as the
\* pages of the attempts that are over.
C17_OneCloseScheduledPerPage ==
  (\A c \in Calls : calls[c].result # cancelled) =>
    close_tasks["direct"] + close_tasks["proxy"] =
      Cardinality(C17_PagesOfEndedAttempts)

\* C18, the step of an update: white_list_update on this session leaves the
\* route another session of the process chooses for each url as it was, and
\* leaves every other field of this session unchanged.
C18_UpdateStep ==
  \A P \in SUBSET PatternPool :
    white_list_update(P) =>
      /\ \A url \in FetchUrls :
           peer_select_context(url, default_white_list') =
             peer_select_context(url, default_white_list)
      /\ UNCHANGED <<_pages_semaphore, session_vars, pages, close_tasks,
                     closing_vars, calls>>

\* C18: the whitelist is owned by one session: white_list_update on a
\* session changes its own store only, never the route another session
\* chooses, also when both were created with no white_list.
C18_WhitelistOwnedBySession == [][C18_UpdateStep]_vars

\* C19: when _init fails at a step after the install (starting the engine,
\* launching a context, creating its placeholder page), create() raises
\* and nothing the earlier steps started is left running: no engine, no
\* open context.
C19_FailedInitLeavesNothing ==
  (init_pc.step = "failed" /\ init_pc.raised # "new") =>
    /\ engine # "running"
    /\ \A e \in Envs : env[e] # "open"

\* C20, termination: every fetch call that was made leaves fetch at last
\* (by return, by the exception of new_page or route, or cancelled), the
\* calls that waited for a slot included.
C20_EveryCallEnds ==
  \A c \in 1..NLiveCalls : (calls[c].pc # "idle") ~> Ended(c)

\* C20, attempts: a call makes at most retries + 1 attempts.
C20_AttemptsBounded ==
  \A c \in Calls :
    /\ calls[c].attempt <= calls[c].retries + 1
    /\ Len(calls[c].opened) <= calls[c].retries + 1

\* C20: on a session that is not closed and whose engine operations all end,
\* every fetch call ends after at most retries + 1 attempts and every call
\* waiting for a slot gets one: more calls than slots never deadlock.
C20_EveryFetchTerminates == C20_EveryCallEnds /\ []C20_AttemptsBounded

\* C20 witness: with more calls than slots every call has ended, one of them
\* by None after retries + 1 attempts.
C20_Witness ==
  /\ Cardinality(Calls) > max_pages
  /\ \A c \in Calls : Ended(c)
  /\ \E c \in Calls :
       /\ calls[c].result = returns_None
       /\ calls[c].attempt = calls[c].retries + 1
       /\ Len(calls[c].opened) = calls[c].retries + 1

====
